---- MODULE Spec2Model ----
(***************************************************************************)
(* A state-machine model of scripts/train.py: the epoch trainer (train),   *)
(* the evaluator (test), the trial runner (train_model) and the search     *)
(* driver (main, study.optimize).                                          *)
(*                                                                         *)
(* Numbers.  Learning rates are rationals num/den, the drawn learning rate *)
(* in units of 1e-5 and the decay factor in tenths.  The model parameters  *)
(* are abstracted to the number of optimizer steps applied to them since   *)
(* Net() was constructed.  Losses are rationals num/den.                   *)
(***************************************************************************)
EXTENDS Integers, Sequences, FiniteSets, TLC

\* ------------------------------------------------------------- bounds
MaxEpochs == 2
MaxTrainChunks == 3
MaxLogInterval == 2
MaxTestSize == 3
MaxTestBatch == 2
MaxSampleLoss == 1

\* -------------------------------------------------- program constants
n_trials == 10
step_size == 1
GammaDen == 10
default_log_interval == 10
default_test_batch_size == 1000

BatchSizeChoices == {64, 128, 256}
LrChoices == {1, 10000}
GammaChoices == {5, 9}

VARIABLES
    args,        \* run configuration: epochs, log_interval, dry_run, save_model, test_batch_size
    trainN,      \* len(dataset1)
    testN,       \* len(dataset2)
    pc,          \* position of the single thread of control
    trial,       \* number of trials study.optimize has started
    proposal,    \* lr, batch_size, gamma drawn from the trial handle
    epoch,       \* loop variable of train_model
    batch_idx,   \* loop variable of train
    optimizer,   \* the Adam instance: its lr (num/den) and its own step count
    scheduler,   \* the StepLR instance: last_epoch and gamma
    model,       \* the single Net instance: optimizer steps applied to it
    loss,        \* local of train_model: unbound until the first test returns
    test_loss,   \* local of test: summed loss (numerator of the average after line 86)
    correct,     \* local of test: correct predictions so far
    test_pos,    \* samples of the test loader consumed so far
    output,      \* what the model computes on the test set during this call of test
    batches,     \* per-batch correct counts of this call of test, in order
    printed,     \* progress lines printed by the current call of train
    logged,      \* training_loss records emitted by the current call of train
    call_steps,  \* optimizer steps applied by the current call of train
    calls,       \* the calls train_model has made in this trial, in order
    last_eval,   \* the last value returned by test, with its trial and epoch
    study,       \* the study: completed trials, best value and best params
    seen,        \* the objectives of all completed trials
    reported,    \* the "Best parameters" line was printed
    snapshot,    \* model state written to mnist_cnn.pt, NoSnapshot if none
    saves,       \* number of times torch.save ran
    raised       \* the exception that ended the process, "none" if none

vars == <<args, trainN, testN, pc, trial, proposal, epoch, batch_idx, optimizer,
          scheduler, model, loss, test_loss, correct, test_pos, output, batches,
          printed, logged, call_steps, calls, last_eval, study, seen,
          reported, snapshot, saves, raised>>

\* ------------------------------------------------------------ helpers
NoSnapshot == [written |-> FALSE, state |-> 0]
NoProposal == [lr |-> 0, batch_size |-> 0, gamma |-> 0]
Unbound == [bound |-> FALSE, num |-> 0, den |-> 1]
NoOutput == [hit |-> {}, sloss |-> <<>>]
NoEval == [trial |-> 0, epoch |-> 0, value |-> Unbound]
EmptyStudy == [n |-> 0, best_value |-> Unbound, best_params |-> NoProposal,
               best_is_last |-> FALSE]

Min(a, b) == IF a < b THEN a ELSE b

\* a < b for rationals with positive denominators
Less(a, b) == a.num * b.den < b.num * a.den

\* len(train_loader): ceil(n / batch_size)
NumBatches(n, bs) == (n + bs - 1) \div bs

\* sum of f[i] for i in lo..hi
RECURSIVE SumRange(_, _, _)
SumRange(f, lo, hi) == IF lo > hi THEN 0 ELSE f[lo] + SumRange(f, lo + 1, hi)

RECURSIVE SumSeq(_)
SumSeq(s) == IF s = <<>> THEN 0 ELSE Head(s) + SumSeq(Tail(s))

RECURSIVE Pow(_, _)
Pow(b, k) == IF k = 0 THEN 1 ELSE b * Pow(b, k - 1)

Proposals == [lr : LrChoices, batch_size : BatchSizeChoices, gamma : GammaChoices]

TrainSizes == {64 * k : k \in 0..MaxTrainChunks}

Outputs(n) == [hit : SUBSET (1..n), sloss : [1..n -> 0..MaxSampleLoss]]

\* ------------------------------------------------------- epoch trainer
\* the interval counted from the first batch: (batch_idx + 1) % log_interval
IsLoggedCountingFromOne(idx, a) == (idx + 1) % a.log_interval = 0

\* line 45: the batch is a logged batch
IsLogged(idx, a) == idx % a.log_interval = 0

\* line 55: the loop is left after this batch
Breaks(idx, a) == IsLogged(idx, a) /\ a.dry_run

\* lines 38-58: one iteration of the loop of train
TrainBatch ==
    /\ pc = "train"
    /\ batch_idx < NumBatches(trainN, proposal.batch_size)
    /\ model' = model + 1
    /\ optimizer' = [optimizer EXCEPT !.steps = @ + 1]
    /\ call_steps' = call_steps + 1
    /\ printed' = IF IsLogged(batch_idx, args) THEN printed + 1 ELSE printed
    /\ IF Breaks(batch_idx, args)
          THEN /\ pc' = "test"
               /\ UNCHANGED <<logged, batch_idx>>
          ELSE /\ logged' = logged + 1
               /\ batch_idx' = batch_idx + 1
               /\ pc' = "train"
    /\ UNCHANGED <<args, trainN, testN, trial, proposal, epoch, scheduler, loss,
                   test_loss, correct, test_pos, output, batches, calls,
                   last_eval, study, seen, reported, snapshot,
                   saves, raised>>

\* train returns and the loop of train_model goes on to the step, leaving out test
TrainReturnSkipsTest ==
    /\ pc = "train"
    /\ batch_idx >= NumBatches(trainN, proposal.batch_size)
    /\ pc' = "sched"
    /\ UNCHANGED <<args, trainN, testN, trial, proposal, epoch, batch_idx,
                   optimizer, scheduler, model, loss, test_loss, correct,
                   test_pos, output, batches, printed, logged, call_steps,
                   calls, last_eval, study, seen, reported, snapshot, saves,
                   raised>>

\* line 38: the loader is exhausted and train returns
TrainReturn ==
    /\ pc = "train"
    /\ batch_idx >= NumBatches(trainN, proposal.batch_size)
    /\ pc' = "test"
    /\ UNCHANGED <<args, trainN, testN, trial, proposal, epoch, batch_idx,
                   optimizer, scheduler, model, loss, test_loss, correct,
                   test_pos, output, batches, printed, logged, call_steps,
                   calls, last_eval, study, seen, reported,
                   snapshot, saves, raised>>

\* ----------------------------------------------------------- evaluator
\* lines 74-78: entry of test; the model in eval mode fixes what it computes
TestEnter ==
    /\ pc = "test"
    /\ pc' = "test_loop"
    /\ test_loss' = 0
    /\ correct' = 0
    /\ test_pos' = 0
    /\ batches' = <<>>
    /\ output' \in Outputs(testN)
    /\ calls' = Append(calls, "test")
    /\ UNCHANGED <<args, trainN, testN, trial, proposal, epoch, batch_idx,
                   optimizer, scheduler, model, loss, printed, logged,
                   call_steps, last_eval, study, seen, reported,
                   snapshot, saves, raised>>

\* pred.eq(target) without view_as: the comparison broadcasts over the batch
BatchCorrectBroadcast(out, lo, hi) ==
    Cardinality(out.hit \cap (lo..hi)) * (hi - lo + 1)

\* line 84: correct predictions among the samples lo..hi
BatchCorrect(out, lo, hi) == Cardinality(out.hit \cap (lo..hi))

\* line 82: summed loss of the samples lo..hi
BatchLoss(out, lo, hi) == SumRange(out.sloss, lo, hi)

\* lines 79-84: one batch of the test loader
TestBatch ==
    /\ pc = "test_loop"
    /\ test_pos < testN
    /\ LET lo == test_pos + 1
           hi == Min(test_pos + args.test_batch_size, testN)
       IN /\ test_loss' = test_loss + BatchLoss(output, lo, hi)
          /\ correct' = correct + BatchCorrect(output, lo, hi)
          /\ batches' = Append(batches, BatchCorrect(output, lo, hi))
          /\ test_pos' = hi
    /\ UNCHANGED <<args, trainN, testN, pc, trial, proposal, epoch, batch_idx,
                   optimizer, scheduler, model, loss, output, printed, logged,
                   call_steps, calls, last_eval, study, seen, 
                   reported, snapshot, saves, raised>>

\* line 86: test_loss /= len(test_loader.dataset)
AverageLoss(sum, n) == [bound |-> TRUE, num |-> sum, den |-> n]

\* lines 86-95 and 136: the division, the summary, the record and the return
TestFinish ==
    /\ pc = "test_loop"
    /\ test_pos >= testN
    /\ IF testN = 0
          THEN /\ raised' = "ZeroDivisionError"
               /\ pc' = "aborted"
               /\ UNCHANGED <<loss, last_eval, test_loss, correct, test_pos,
                              output, batches>>
          ELSE /\ loss' = AverageLoss(test_loss, testN)
               /\ last_eval' = [trial |-> trial, epoch |-> epoch,
                                value |-> AverageLoss(test_loss, testN)]
               /\ correct' = 0
               /\ test_pos' = 0
               /\ output' = NoOutput
               /\ batches' = <<>>
               /\ pc' = "sched"
               /\ UNCHANGED test_loss
               /\ UNCHANGED raised
    /\ UNCHANGED <<args, trainN, testN, trial, proposal, epoch, batch_idx,
                   optimizer, scheduler, model, printed, logged, call_steps,
                   calls, study, seen, reported, snapshot, saves>>

\* -------------------------------------------------------- trial runner
\* lines 111-113: the trial handle draws the proposal; line 184: optimize
\* starts the next trial while fewer than n_trials have been started
Suggest ==
    /\ pc = "study"
    /\ trial < n_trials
    /\ trial' = trial + 1
    /\ proposal' \in Proposals
    /\ pc' = "load"
    /\ UNCHANGED <<args, trainN, testN, epoch, batch_idx, optimizer, scheduler,
                   model, loss, test_loss, correct, test_pos, output, batches,
                   printed, logged, call_steps, calls, last_eval, study, seen,
                   reported, snapshot, saves, raised>>

\* line 130: optim.Adam(model.parameters(), lr=lr)
NewOptimizer(p) == [lr |-> [num |-> p.lr, den |-> 1], steps |-> 0]

\* line 132: StepLR(optimizer, step_size=1, gamma=gamma)
NewScheduler(p) == [last_epoch |-> 0, gamma |-> p.gamma]

\* a Net constructed anew for the trial
ModelReset(m) == 0

\* lines 181, 184: the model the lambda hands to train_model
ModelOfTrial(m) == m

\* lines 115-134: loaders, optimizer and scheduler are built, the loop starts
Load ==
    /\ pc = "load"
    /\ optimizer' = NewOptimizer(proposal)
    /\ scheduler' = NewScheduler(proposal)
    /\ model' = ModelOfTrial(model)
    /\ epoch' = 0
    /\ loss' = Unbound
    /\ calls' = <<>>
    /\ pc' = "epoch"
    /\ UNCHANGED <<args, trainN, testN, trial, proposal, batch_idx, test_loss,
                   correct, test_pos, output, batches, printed, logged,
                   call_steps, last_eval, study, seen, reported,
                   snapshot, saves, raised>>

\* lines 134-135: the loop of train_model calls train
CallTrain ==
    /\ pc = "epoch"
    /\ epoch < args.epochs
    /\ pc' = "train"
    /\ batch_idx' = 0
    /\ printed' = 0
    /\ logged' = 0
    /\ call_steps' = 0
    /\ calls' = Append(calls, "train")
    /\ UNCHANGED <<args, trainN, testN, trial, proposal, epoch, optimizer,
                   scheduler, model, loss, test_loss, correct, test_pos, output,
                   batches, last_eval, study, seen, reported,
                   snapshot, saves, raised>>

\* a schedule that decays every second epoch only
StepLRGetLrEverySecond(lr, le, gamma) ==
    IF le = 0 \/ le % 2 # 0
       THEN lr
       ELSE [num |-> lr.num * gamma, den |-> lr.den * GammaDen]

\* StepLR.get_lr after last_epoch was advanced to le
StepLRGetLr(lr, le, gamma) ==
    IF le = 0 \/ le % step_size # 0
       THEN lr
       ELSE [num |-> lr.num * gamma, den |-> lr.den * GammaDen]

\* line 137: scheduler.step(), then the next iteration of the loop
SchedulerStep ==
    /\ pc = "sched"
    /\ scheduler' = [scheduler EXCEPT !.last_epoch = @ + 1]
    /\ optimizer' = [optimizer EXCEPT
                       !.lr = StepLRGetLr(@, scheduler.last_epoch + 1, scheduler.gamma)]
    /\ calls' = Append(calls, "step")
    /\ epoch' = epoch + 1
    /\ pc' = "epoch"
    /\ UNCHANGED <<args, trainN, testN, trial, proposal, batch_idx, model, loss,
                   test_loss, correct, test_pos, output, batches, printed,
                   logged, call_steps, last_eval, study, seen, 
                   reported, snapshot, saves, raised>>

\* direction="maximize"
ImprovesMaximize(v, b) == ~b.bound \/ Less(b, v)

\* ------------------------------------------------------- search driver
\* line 183: direction="minimize": value v replaces the best value b
Improves(v, b) == ~b.bound \/ Less(v, b)

\* study.optimize records the value train_model returned
Tell(st, v, p) ==
    [n |-> st.n + 1,
     best_value |-> IF Improves(v, st.best_value) THEN v ELSE st.best_value,
     best_params |-> IF Improves(v, st.best_value) THEN p ELSE st.best_params,
     best_is_last |-> Improves(v, st.best_value)]

\* line 139: return loss; the locals of train_model are dropped
Return ==
    /\ pc = "epoch"
    /\ epoch >= args.epochs
    /\ IF loss.bound
          THEN /\ study' = Tell(study, loss, proposal)
               /\ seen' = seen \cup {loss}
               /\ last_eval' = NoEval
               /\ proposal' = NoProposal
               /\ optimizer' = NewOptimizer(NoProposal)
               /\ scheduler' = NewScheduler(NoProposal)
               /\ loss' = Unbound
               /\ epoch' = 0
               /\ calls' = <<>>
               /\ pc' = "study"
               /\ UNCHANGED raised
          ELSE /\ raised' = "UnboundLocalError"
               /\ pc' = "aborted"
               /\ UNCHANGED <<study, seen, proposal, optimizer, scheduler,
                              loss, epoch, calls, last_eval>>
    /\ UNCHANGED <<args, trainN, testN, trial, batch_idx, model, test_loss,
                   correct, test_pos, output, batches, printed, logged,
                   call_steps, reported, snapshot, saves>>

\* the exception is caught by optimize (catch=(Exception,)) and the search goes on
RaiseCaught ==
    /\ pc \in {"load", "train", "test", "test_loop", "sched"}
    /\ raised' = pc
    /\ pc' = "study"
    /\ UNCHANGED <<args, trainN, testN, trial, proposal, epoch, batch_idx,
                   optimizer, scheduler, model, loss, test_loss, correct,
                   test_pos, output, batches, printed, logged, call_steps,
                   calls, last_eval, study, seen, reported, snapshot, saves>>

\* lines 125-137: a step of the trial raises (download, device, data errors)
Raise ==
    /\ pc \in {"load", "train", "test", "test_loop", "sched"}
    /\ raised' = pc
    /\ pc' = "aborted"
    /\ UNCHANGED <<args, trainN, testN, trial, proposal, epoch, batch_idx,
                   optimizer, scheduler, model, loss, test_loss, correct,
                   test_pos, output, batches, printed, logged, call_steps,
                   calls, last_eval, study, seen, reported,
                   snapshot, saves>>

\* line 185: print(f"Best parameters: {study.best_params}")
Report ==
    /\ pc = "study"
    /\ trial >= n_trials
    /\ reported' = TRUE
    /\ pc' = "save"
    /\ UNCHANGED <<args, trainN, testN, trial, proposal, epoch, batch_idx,
                   optimizer, scheduler, model, loss, test_loss, correct,
                   test_pos, output, batches, printed, logged, call_steps,
                   calls, last_eval, study, seen, snapshot, saves,
                   raised>>

\* the state_dict of a newly constructed Net
SavedFresh(m) == [written |-> TRUE, state |-> 0]

\* line 188: torch.save(model.state_dict(), "mnist_cnn.pt")
Saved(m) == [written |-> TRUE, state |-> m]

\* lines 187-193: the snapshot, when asked for, and the end of main
Save ==
    /\ pc = "save"
    /\ IF args.save_model
          THEN /\ snapshot' = Saved(model)
               /\ saves' = saves + 1
          ELSE UNCHANGED <<snapshot, saves>>
    /\ pc' = "done"
    /\ UNCHANGED <<args, trainN, testN, trial, proposal, epoch, batch_idx,
                   optimizer, scheduler, model, loss, test_loss, correct,
                   test_pos, output, batches, printed, logged, call_steps,
                   calls, last_eval, study, seen, reported, raised>>

\* ------------------------------------------------------ specifications
Configs(epochs, intervals, drys, saves_, tbs) ==
    [epochs : epochs, log_interval : intervals, dry_run : drys,
     save_model : saves_, test_batch_size : tbs]

\* the state main is in when study.optimize is entered (line 184)
Fresh ==
    /\ trial = 0
    /\ proposal = NoProposal
    /\ epoch = 0
    /\ batch_idx = 0
    /\ optimizer = NewOptimizer(NoProposal)
    /\ scheduler = NewScheduler(NoProposal)
    /\ model = 0
    /\ loss = Unbound
    /\ test_loss = 0
    /\ correct = 0
    /\ test_pos = 0
    /\ output = NoOutput
    /\ batches = <<>>
    /\ printed = 0
    /\ logged = 0
    /\ call_steps = 0
    /\ calls = <<>>
    /\ last_eval = NoEval
    /\ study = EmptyStudy
    /\ seen = {}
    /\ reported = FALSE
    /\ snapshot = NoSnapshot
    /\ saves = 0
    /\ raised = "none"

\* main with the default flags, --epochs and --save-model as given, on a
\* training set of one batch and a test set of one sample
Init ==
    /\ args \in Configs(0..MaxEpochs, {default_log_interval}, {FALSE}, BOOLEAN,
                        {default_test_batch_size})
    /\ trainN = 64
    /\ testN = 1
    /\ pc = "study"
    /\ Fresh

Next ==
    \/ Suggest
    \/ Load
    \/ CallTrain
    \/ TrainBatch
    \/ TrainReturn
    \/ TestEnter
    \/ TestBatch
    \/ TestFinish
    \/ SchedulerStep
    \/ Return
    \/ Raise
    \/ Report
    \/ Save

Spec == Init /\ [][Next]_vars

\* the first call of train of the first trial, for every log interval, both
\* values of the dry-run flag, every training-set size and every proposal
InitTrain ==
    /\ args \in Configs({1}, 1..MaxLogInterval, BOOLEAN, {FALSE},
                        {default_test_batch_size})
    /\ trainN \in TrainSizes
    /\ testN = 1
    /\ pc = "train"
    /\ trial = 1
    /\ proposal \in Proposals
    /\ epoch = 0
    /\ batch_idx = 0
    /\ optimizer = NewOptimizer(proposal)
    /\ scheduler = NewScheduler(proposal)
    /\ model = 0
    /\ loss = Unbound
    /\ test_loss = 0
    /\ correct = 0
    /\ test_pos = 0
    /\ output = NoOutput
    /\ batches = <<>>
    /\ printed = 0
    /\ logged = 0
    /\ call_steps = 0
    /\ calls = <<"train">>
    /\ last_eval = NoEval
    /\ study = EmptyStudy
    /\ seen = {}
    /\ reported = FALSE
    /\ snapshot = NoSnapshot
    /\ saves = 0
    /\ raised = "none"

NextTrain ==
    \/ TrainBatch
    \/ TrainReturn

SpecTrain == InitTrain /\ [][NextTrain]_vars

\* the first call of test of the first trial (after train on an empty
\* training set), for every test-set size and every test batch size
InitTest ==
    /\ args \in Configs({1}, {default_log_interval}, {FALSE}, {FALSE},
                        1..MaxTestBatch)
    /\ trainN = 0
    /\ testN \in 0..MaxTestSize
    /\ pc = "test"
    /\ trial = 1
    /\ proposal = [lr |-> 1, batch_size |-> 64, gamma |-> 5]
    /\ epoch = 0
    /\ batch_idx = 0
    /\ optimizer = NewOptimizer(proposal)
    /\ scheduler = NewScheduler(proposal)
    /\ model = 0
    /\ loss = Unbound
    /\ test_loss = 0
    /\ correct = 0
    /\ test_pos = 0
    /\ output = NoOutput
    /\ batches = <<>>
    /\ printed = 0
    /\ logged = 0
    /\ call_steps = 0
    /\ calls = <<"train">>
    /\ last_eval = NoEval
    /\ study = EmptyStudy
    /\ seen = {}
    /\ reported = FALSE
    /\ snapshot = NoSnapshot
    /\ saves = 0
    /\ raised = "none"

NextTest ==
    \/ TestEnter
    \/ TestBatch
    \/ TestFinish

SpecTest == InitTest /\ [][NextTest]_vars

\* =============================================================== claims

\* C1 as stated, for a call without the dry-run flag: when train has
\* returned, the number of training_loss records it emitted equals the
\* number of progress lines it printed.
C1_RecordsEqualProgressLines ==
    (pc = "test" /\ ~args.dry_run) => logged = printed

\* C1 amended: train emits one training_loss record for every batch whose
\* loop body runs to its end, whatever log_interval is, and prints a
\* progress line for the batches whose index is a multiple of log_interval.
\* Without the dry-run flag a call over n batches emits n records and
\* prints ceil(n / log_interval) lines; with it, the loop is left on the
\* first batch after the progress line and before the record.
C1_RecordPerBatch ==
    LET n == NumBatches(trainN, proposal.batch_size)
    IN /\ pc = "train" =>
             /\ logged = batch_idx
             /\ call_steps = batch_idx
             /\ printed = NumBatches(batch_idx, args.log_interval)
       /\ (pc = "test" /\ ~args.dry_run) =>
             /\ logged = n
             /\ call_steps = n
             /\ printed = NumBatches(n, args.log_interval)
       /\ (pc = "test" /\ args.dry_run) =>
             /\ logged = 0
             /\ call_steps = Min(1, n)
             /\ printed = Min(1, n)

C1_Witness ==
    /\ pc = "test"
    /\ ~args.dry_run
    /\ args.log_interval = 2
    /\ logged = 3
    /\ printed = 2

\* C2, for a non-empty training set: with the dry-run flag set, a call of
\* train that has returned has applied exactly one optimizer step, printed
\* exactly one progress line and emitted that batch's loss to the metric
\* stream, and has processed no further batch.
C2_DryRunOneLoggedBatch ==
    (pc = "test" /\ args.dry_run /\ trainN > 0) =>
        /\ call_steps = 1
        /\ printed = 1
        /\ logged = 1

\* C3: at the return statement of train_model the objective is defined
\* and is the value the evaluator returned for the final epoch
\* (index epochs - 1) of this same trial.
C3_ReturnsFinalEpochLoss ==
    (pc = "epoch" /\ epoch >= args.epochs) =>
        /\ loss.bound
        /\ last_eval.trial = trial
        /\ last_eval.epoch = args.epochs - 1
        /\ loss = last_eval.value

\* the i-th call of a trial: train, test, step, train, test, step, ...
Pattern(i) == IF i % 3 = 1 THEN "train" ELSE IF i % 3 = 2 THEN "test" ELSE "step"

InTrial == pc \in {"epoch", "train", "test", "test_loop", "sched"}

\* C4: within a trial the calls are train, test, step for epoch 0, then for
\* epoch 1, ... in increasing order; test of epoch e starts only after
\* train of epoch e returned, the step only after test returned; a
\* completed trial holds exactly epochs calls of each.
C4_CallOrder ==
    InTrial =>
        /\ \A i \in 1..Len(calls) : calls[i] = Pattern(i)
        /\ pc = "epoch" => Len(calls) = 3 * epoch /\ epoch <= args.epochs
        /\ pc = "train" => Len(calls) = 3 * epoch + 1 /\ epoch < args.epochs
        /\ pc = "test" => Len(calls) = 3 * epoch + 1 /\ epoch < args.epochs
        /\ pc = "test_loop" => Len(calls) = 3 * epoch + 2 /\ epoch < args.epochs
        /\ pc = "sched" => Len(calls) = 3 * epoch + 2 /\ epoch < args.epochs

C4_Witness ==
    /\ pc = "epoch"
    /\ epoch = args.epochs
    /\ args.epochs = 2
    /\ calls = <<"train", "test", "step", "train", "test", "step">>

\* C5: in a trial that drew lr0 and gamma, after k completed epochs the
\* optimizer's learning rate is lr0 * gamma^k, so every optimizer step of
\* epoch k is taken at that rate, and a new trial starts at its own lr0.
C5_DecaySchedule ==
    InTrial =>
        /\ epoch <= args.epochs
        /\ optimizer.lr.num = proposal.lr * Pow(proposal.gamma, epoch)
        /\ optimizer.lr.den = Pow(GammaDen, epoch)

C5_Witness ==
    /\ pc = "train"
    /\ trial = 2
    /\ epoch = 1
    /\ proposal.lr = 10000
    /\ proposal.gamma = 9
    /\ optimizer.lr = [num |-> 90000, den |-> 10]

\* C6: the report is printed only after exactly n_trials trials, and the
\* reported best value is the minimum of the objectives of all of them;
\* best value and best params change only together, to the objective and
\* the proposal of the trial that has just returned.
C6_BestIsMinimum ==
    /\ [](reported =>
            /\ trial = n_trials
            /\ study.n = n_trials
            /\ study.best_value \in seen
            /\ \A v \in seen : ~Less(v, study.best_value))
    /\ [][study' # study =>
            /\ study'.n = study.n + 1
            /\ \/ /\ study'.best_value = study.best_value
                  /\ study'.best_params = study.best_params
               \/ /\ study'.best_value = loss
                  /\ study'.best_params = proposal
                  /\ proposal \in Proposals]_vars

C6_Witness ==
    /\ reported
    /\ Cardinality(seen) >= 2
    /\ ~study.best_is_last

\* C7: the model is never reset: no step of the search lowers the number
\* of optimizer steps applied to it, and from the return of one trial to
\* the first batch of the next it is unchanged, while the optimizer and the
\* schedule are built anew for the trial.
C7_ModelCarriedOver ==
    [][/\ model' >= model
       /\ pc \in {"study", "load"} => model' = model
       /\ (pc = "load" /\ pc' = "epoch") =>
             /\ optimizer'.steps = 0
             /\ optimizer'.lr = [num |-> proposal.lr, den |-> 1]
             /\ scheduler'.last_epoch = 0]_vars

C7_Witness ==
    /\ pc = "epoch"
    /\ epoch = 0
    /\ trial = 3
    /\ model = 4
    /\ optimizer.steps = 0

\* C8: once a step has raised, the process has ended: nothing further can
\* happen, no later trial was started, the report was not printed and no
\* snapshot was written, whatever the save flag.
C8_ExceptionAborts ==
    raised # "none" =>
        /\ pc = "aborted"
        /\ ~ENABLED Next
        /\ trial = study.n + 1
        /\ ~reported
        /\ ~snapshot.written
        /\ saves = 0

C8_Witness ==
    /\ raised = "sched"
    /\ args.save_model
    /\ trial = 2
    /\ study.n = 1

StepsPerCall(bs) ==
    IF args.dry_run THEN Min(1, NumBatches(trainN, bs)) ELSE NumBatches(trainN, bs)

\* C10: a snapshot exists only after the report, when the search has
\* completed with the save flag set; it was written once and holds the
\* model as it is after the last trial, with the steps of all n_trials
\* trials applied.
C10_SnapshotIsFinalModel ==
    /\ saves <= 1
    /\ snapshot.written =>
          /\ pc = "done"
          /\ args.save_model
          /\ reported
          /\ saves = 1
          /\ study.n = n_trials
          /\ snapshot.state = model
          /\ snapshot.state >= n_trials * args.epochs * StepsPerCall(256)
          /\ snapshot.state <= n_trials * args.epochs * StepsPerCall(64)
    /\ (pc = "done" /\ args.save_model) => snapshot.written
    /\ pc = "save" => reported /\ ~snapshot.written

\* the snapshot holds steps applied after the best trial ended
C10_Witness ==
    /\ pc = "done"
    /\ snapshot.written
    /\ snapshot.state = 20
    /\ ~study.best_is_last

====
